---- MODULE Spec2Model ----
(***************************************************************************)
(* Voxel perception engine of craftassist (python/craftassist/             *)
(* perception.py): connected components, accessibility mask, object        *)
(* locators, relation heuristics and the hole sweep.                       *)
(*                                                                         *)
(* Arrays returned by get_blocks are indexed (y, z, x); a cell of such an  *)
(* array is the tuple <<i, j, k>> = <<y, z, x>> (1-based tuples, 0-based   *)
(* coordinates).  World coordinates are <<x, y, z>>.                       *)
(***************************************************************************)
EXTENDS Integers, Sequences, FiniteSets, TLC

VARIABLES
    fn,                      \* which pure function has been applied ("idle" before)
    arg,                     \* its arguments
    ret,                     \* its result
    world,                   \* the snapshot the hole search queries
    agent_pos,               \* agent.pos
    frames,                  \* the locals of each get_all_nearby_holes invocation
    current_connected_comp,  \* module global (perception.py:375)
    current_idm              \* module global (perception.py:375)

vars == <<fn, arg, ret, world, agent_pos, frames, current_connected_comp, current_idm>>
pureVars == <<fn, arg, ret>>
holeVars == <<world, agent_pos, frames, current_connected_comp, current_idm>>

(***************************************************************************)
(* Bounds of the model.                                                    *)
(***************************************************************************)
\* shape of the arrays given to connected_components / accessible_interesting_blocks
NY == 2
NZ == 2
NX == 3
\* most cells of an input array that differ from the default cell
MaxTrue == 3
\* search radius of the object locators (MAX_RADIUS in the program)
max_radius == 1
\* most cells of the locator's window, besides the centre, that are not stone
MaxObjCells == 2
\* side of the coordinate grid of the check_inside inputs, and most points of e1
GridSide == 3
MaxPts == 4
HoleRadius == 2
MaxDev == 2
BaseHeight == 5
PitMaxRadius == 4
ScenarioRadius == 10
FloorHeight == 10
TwoRadius == 1

(***************************************************************************)
(* Generic helpers.                                                        *)
(***************************************************************************)
Abs(n) == IF n < 0 THEN -n ELSE n
Min(a, b) == IF a < b THEN a ELSE b

RECURSIVE SumOver(_, _)
\* sum of f[e] over the elements e of the set S
SumOver(S, f) ==
    IF S = {} THEN 0
    ELSE LET e == CHOOSE e \in S : TRUE IN f[e] + SumOver(S \ {e}, f)

RECURSIVE KSubsets(_, _)
\* the subsets of S with at most k elements
KSubsets(S, k) ==
    IF k = 0 THEN {{}}
    ELSE LET r == KSubsets(S, k - 1) IN r \cup {s \cup {e} : s \in r, e \in S}

\* the cells of an array of shape <<n1, n2, n3>>
CellsOf(shape) == (0 .. shape[1] - 1) \X (0 .. shape[2] - 1) \X (0 .. shape[3] - 1)

\* the cells of an array in the order of "for i: for j: for k:"
ScanOrderOf(shape) ==
    [n \in 1 .. shape[1] * shape[2] * shape[3] |->
        << (n - 1) \div (shape[2] * shape[3]),
           ((n - 1) \div shape[3]) % shape[2],
           (n - 1) % shape[3] >>]

RECURSIVE ListFrom(_, _, _)
\* the members of S in the order of the sequence order, from index n on
ListFrom(S, order, n) ==
    IF n > Len(order) THEN << >>
    ELSE IF order[n] \in S THEN << order[n] >> \o ListFrom(S, order, n + 1)
    ELSE ListFrom(S, order, n + 1)

(***************************************************************************)
(* util.adjacent, util.diag_adjacent, search.depth_first_search            *)
(***************************************************************************)
\* the 6 face neighbours of p
adjacent(p) ==
    { <<p[1] + 1, p[2], p[3]>>, <<p[1] - 1, p[2], p[3]>>,
      <<p[1], p[2] + 1, p[3]>>, <<p[1], p[2] - 1, p[3]>>,
      <<p[1], p[2], p[3] + 1>>, <<p[1], p[2], p[3] - 1>> }

\* the 26 neighbours of p
diag_adjacent(p) ==
    { <<p[1] + a, p[2] + b, p[3] + c>> : a \in -1 .. 1, b \in -1 .. 1, c \in -1 .. 1 }
        \ {p}

RECURSIVE dfsGrow(_, _, _, _, _)
\* cells admitted so far plus those reached from the frontier; neighbours outside
\* the array are skipped (bounds check, no wrap-around)
dfsGrow(cells, admit, adj, seen, frontier) ==
    IF frontier = {} THEN seen
    ELSE LET next == { q \in UNION { adj[p] : p \in frontier } :
                          q \in cells /\ q \in admit /\ q \notin seen }
         IN dfsGrow(cells, admit, adj, seen \cup next, next)

\* depth_first_search(blocks, pos, fn, adj_fn): the admitted cells reachable from
\* pos without crossing a rejected cell.  admit is the set of cells on which fn
\* returns true, adj the adjacency as a function of the cell.
depth_first_search(cells, pos, admit, adj) ==
    IF pos \in admit THEN dfsGrow(cells, admit, adj, {pos}, {pos}) ELSE {}

(***************************************************************************)
(* connected_components  (perception.py:120-148)                           *)
(***************************************************************************)
\* _fn of connected_components: the cells the flood fill admits
cc_fn(X) == { p \in DOMAIN X : X[p] }

cc_mark_dropped(visited, found) == visited

\* visited |= depth_first_search(...)
cc_mark(visited, found) == visited \cup found

RECURSIVE ccScan(_, _, _, _, _)
ccScan(X, order, n, visited, components) ==
    IF n > Len(order) THEN components
    ELSE LET p == order[n] IN
         IF p \in visited THEN ccScan(X, order, n + 1, visited, components)
         ELSE IF ~ X[p] THEN ccScan(X, order, n + 1, visited \cup {p}, components)
         ELSE LET current_component ==
                      depth_first_search(DOMAIN X, p, cc_fn(X),
                                         [q \in DOMAIN X |-> diag_adjacent(q)])
              IN ccScan(X, order, n + 1,
                        cc_mark(visited \cup {p}, current_component),
                        Append(components, ListFrom(current_component, order, 1)))

\* X is a boolean array of the given shape; the result is a list of lists of cells
connected_components(X, shape) == ccScan(X, ScanOrderOf(shape), 1, {}, << >>)

(***************************************************************************)
(* accessible_interesting_blocks  (perception.py:81-100)                   *)
(***************************************************************************)
\* block_data.PASSABLE_BLOCKS / BORING_BLOCKS restricted to the ids of the model:
\* 0 air (passable, boring), 1 stone (boring), 5 planks (interesting),
\* 8 water (passable, interesting)
PASSABLE_BLOCKS == {0, 8}
BORING_BLOCKS == {0, 1}
BlockIds == {0, 1, 5, 8}

passableCells(blocks) == { p \in DOMAIN blocks : blocks[p] \in PASSABLE_BLOCKS }
interestingCells(blocks) == { p \in DOMAIN blocks : blocks[p] \notin BORING_BLOCKS }

acc_result_unfiltered(X, interesting) == X

\* return X & interesting
acc_result(X, interesting) == X \cap interesting

\* the boolean array over cells that is true on the set m
mask_of(cells, m) == [p \in cells |-> p \in m]

accessible_from(blocks, pos, passable_or_interesting, interesting) ==
    mask_of(DOMAIN blocks,
            acc_result(depth_first_search(DOMAIN blocks, pos, passable_or_interesting,
                                          [q \in DOMAIN blocks |-> adjacent(q)]),
                       interesting))

accessible_interesting_blocks(blocks, pos) ==
    accessible_from(blocks, pos, passableCells(blocks) \cup interestingCells(blocks),
                    interestingCells(blocks))

(***************************************************************************)
(* Object locators  (perception.py:39-78)                                  *)
(***************************************************************************)
\* Positions may be fractional: a position is given in halves, <<2x, 2y, 2z>>.

\* np.round of n2/2: to the nearest integer, a half to the even neighbour
np_round_half(n2) ==
    IF n2 % 2 = 0 THEN n2 \div 2
    ELSE LET lo == (n2 - 1) \div 2 IN IF lo % 2 = 0 THEN lo ELSE lo + 1

\* np.round(pos).astype("int32")
np_round(pos2) == << np_round_half(pos2[1]), np_round_half(pos2[2]), np_round_half(pos2[3]) >>

\* get_blocks(x_min, x_max, y_min, y_max, z_min, z_max): the dense array, indexed
\* (y, z, x), of the (id, meta) of the snapshot w over the box, bounds inclusive
get_blocks(w, mx, Mx, my, My, mz, Mz) ==
    [c \in CellsOf(<<My - my + 1, Mz - mz + 1, Mx - mx + 1>>) |->
        w[<<mx + c[3], my + c[1], mz + c[2]>>]]

\* all_close_interesting_blocks: mask, offset (my, mz, mx) and the queried array
all_close_interesting_blocks(w, pos, radius) ==
    LET mx == pos[1] - radius
        my == pos[2] - radius
        mz == pos[3] - radius
        yzxb == get_blocks(w, mx, pos[1] + radius, my, pos[2] + radius, mz, pos[3] + radius)
        relpos == <<pos[1] - mx, pos[2] - my, pos[3] - mz>>
    IN [mask |-> accessible_interesting_blocks([c \in DOMAIN yzxb |-> yzxb[c][1]], relpos),
        off |-> <<my, mz, mx>>,
        blocks |-> yzxb]

remap_unpermuted(c, off) == <<c[1] + off[1], c[2] + off[2], c[3] + off[3]>>

\* (c[2] + off[2], c[0] + off[0], c[1] + off[1]): window cell (y, z, x) to world (x, y, z)
remap(c, off) == <<c[3] + off[3], c[1] + off[1], c[2] + off[2]>>

\* the list comprehension of lines 50-53
xyzbms(components, off, blocks) ==
    [n \in 1 .. Len(components) |->
        [m \in 1 .. Len(components[n]) |->
            << remap(components[n][m], off), blocks[components[n][m]] >>]]

all_nearby_objects_of(r, side) ==
    xyzbms(connected_components(r.mask, <<side, side, side>>), r.off, r.blocks)

all_nearby_objects(w, pos2, radius) ==
    all_nearby_objects_of(all_close_interesting_blocks(w, np_round(pos2), radius),
                          2 * radius + 1)

\* util.manhat_dist(np.mean(positions of obj), pos), times 2 * len(obj)
manhatNum(obj, pos2) ==
    LET n == Len(obj)
        S(a) == SumOver(1 .. n, [m \in 1 .. n |-> obj[m][1][a]])
    IN Abs(2 * S(1) - n * pos2[1]) + Abs(2 * S(2) - n * pos2[2]) + Abs(2 * S(3) - n * pos2[3])

\* dist(a) < dist(b), the distances compared as exact fractions
distLess(a, b, pos2) == manhatNum(a, pos2) * Len(b) < manhatNum(b, pos2) * Len(a)

argmax(objects, pos2) ==
    CHOOSE i \in 1 .. Len(objects) :
        /\ \A j \in 1 .. Len(objects) : ~ distLess(objects[i], objects[j], pos2)
        /\ \A j \in 1 .. i - 1 : distLess(objects[j], objects[i], pos2)

\* np.argmin(dists): the first index of a least distance
argmin(objects, pos2) ==
    CHOOSE i \in 1 .. Len(objects) :
        /\ \A j \in 1 .. Len(objects) : ~ distLess(objects[j], objects[i], pos2)
        /\ \A j \in 1 .. i - 1 : distLess(objects[i], objects[j], pos2)

None == [tag |-> "None"]
Value(v) == [tag |-> "value", val |-> v]
Raise(e) == [tag |-> "raise", exc |-> e]

closest_of(objects, pos2) ==
    IF Len(objects) = 0 THEN None ELSE Value(objects[argmin(objects, pos2)])

closest_nearby_object(w, pos2, radius) == closest_of(all_nearby_objects(w, pos2, radius), pos2)

(***************************************************************************)
(* Relation heuristics  (perception.py:151-253)                            *)
(***************************************************************************)
\* An entity reference either exposes its occupied coordinates or does not.
Entity(S) == [has |-> TRUE, locs |-> S]
NoLocs == [has |-> FALSE, locs |-> {}]

\* util.get_locs_from_entity(e) is not None
has_locs(e) == e.has
\* util.get_locs_from_entity(e)
get_locs_from_entity(e) == e.locs

False == [tag |-> "value", val |-> FALSE]
True == [tag |-> "value", val |-> TRUE]

\* the loop "for e in entities: ... else: return False/None" reaches its early return
some_without_locs(entities) == \E n \in 1 .. Len(entities) : ~ has_locs(entities[n])

\* lines 165-186 of check_between, once every entity has coordinates: means[1] and
\* means[2] need three entities; np.concatenate(bounding_locs[1], bounding_locs[2])
\* takes its second argument as the axis, and an array of 3 or 18 numbers is no axis
check_between_tail(entities) ==
    IF Len(entities) < 3 THEN Raise("IndexError") ELSE Raise("TypeError")

check_between(entities) ==
    IF some_without_locs(entities) THEN False ELSE check_between_tail(entities)

\* find_between: "means" is reset on every iteration and the return statement is
\* inside the loop, so the first iteration returns: None when the first entity has
\* no coordinates, means[1] of a one-element list otherwise
find_between(entities) ==
    IF Len(entities) = 0 THEN None
    ELSE IF ~ has_locs(entities[1]) THEN None
    ELSE Raise("IndexError")

\* the axes of the j-th test (j = 0, 1) for the slice axis i, 0-based as in the code
fixed_axis(i, j) == (i + 2 * j - 1) % 3
to_check_axis(i, j) == (i + 1 - 2 * j) % 3

bracket_weak(colin, v) == \E c \in colin : c >= v /\ \E d \in colin : d <= v

\* not (max(colin) <= b[to_check] or min(colin) >= b[to_check]), colin not empty
bracket(colin, v) == (\E c \in colin : c > v) /\ (\E c \in colin : c < v)

\* the body of "for i in range(3)" for the coordinate b: inside stays True
inside_on_axis(b, locs1, i) ==
    LET coplanar == { c \in locs1 : c[i + 1] = b[i + 1] }
    IN \A j \in 0 .. 1 :
          LET fixed == fixed_axis(i, j)
              to_check == to_check_axis(i, j)
              colin == { c[to_check + 1] : c \in { c \in coplanar : c[fixed + 1] = b[fixed + 1] } }
          IN colin # {} /\ bracket(colin, b[to_check + 1])

check_inside(entities) ==
    IF some_without_locs(entities) THEN False
    ELSE IF Len(entities) = 0 THEN Raise("IndexError")
    ELSE IF Len(entities) = 1 /\ get_locs_from_entity(entities[1]) # {} THEN Raise("IndexError")
    ELSE IF Len(entities) = 1 THEN False
    ELSE LET locs0 == get_locs_from_entity(entities[1])
             locs1 == get_locs_from_entity(entities[2])
         IN IF \E b \in locs0 : \E i \in 0 .. 2 : inside_on_axis(b, locs1, i)
            THEN True ELSE False

\* np.round(np.mean(l, axis=0)) on one axis: the sum S of n values
round_mean(S, n) ==
    LET q == S \div n
        r == S % n
    IN IF 2 * r < n THEN q
       ELSE IF 2 * r > n THEN q + 1
       ELSE IF q % 2 = 0 THEN q ELSE q + 1

\* the square of util.euclid_dist
euclid2(a, b) == (a[1] - b[1]) * (a[1] - b[1]) + (a[2] - b[2]) * (a[2] - b[2])
                    + (a[3] - b[3]) * (a[3] - b[3])

\* a < b in the order of the three nested range loops
lexLess(a, b) ==
    \/ a[1] < b[1]
    \/ a[1] = b[1] /\ a[2] < b[2]
    \/ a[1] = b[1] /\ a[2] = b[2] /\ a[3] < b[3]

RECURSIVE sorted_by_dist(_, _)
\* sorted(inside, key=distance to m): stable, so ties keep the loop order
sorted_by_dist(S, m) ==
    IF S = {} THEN << >>
    ELSE LET first == CHOOSE a \in S : \A b \in S \ {a} :
                          \/ euclid2(a, m) < euclid2(b, m)
                          \/ euclid2(a, m) = euclid2(b, m) /\ lexLess(a, b)
         IN << first >> \o sorted_by_dist(S \ {first}, m)

find_inside(entity) ==
    IF ~ has_locs(entity) THEN None
    ELSE LET l == get_locs_from_entity(entity)
             n == Cardinality(l)
             m == << round_mean(SumOver(l, [c \in l |-> c[1]]), n),
                     round_mean(SumOver(l, [c \in l |-> c[2]]), n),
                     round_mean(SumOver(l, [c \in l |-> c[3]]), n) >>
             lo(a) == CHOOSE v \in { c[a] : c \in l } : \A c \in l : v <= c[a]
             hi(a) == CHOOSE v \in { c[a] : c \in l } : \A c \in l : v >= c[a]
             inside == { p \in (lo(1) .. hi(1)) \X (lo(2) .. hi(2)) \X (lo(3) .. hi(3)) :
                            check_inside(<< Entity({p}), entity >>) = True }
         IN Value(sorted_by_dist(inside, m))

(***************************************************************************)
(* get_all_nearby_holes  (perception.py:366-464)                           *)
(*                                                                         *)
(* frames[i] holds the locals of invocation i; current_connected_comp and  *)
(* current_idm are the module globals the function declares.  One action   *)
(* per step of the sweep: the set-up and height map, one iteration of the  *)
(* while loop up to the call of dfs, one call or return of dfs, the        *)
(* acceptance test with its loop, and the post-filter.                     *)
(***************************************************************************)
MOBILE_BLOCK == 383
CEILING_FUDGE == 5
DFS_INITIAL == 100000
DFS_OUTSIDE == -100000
NO_HOLE == -1

\* agent.get_blocks(x, x, y, y, z, z)[0, 0, 0] on the snapshot w: the column (x, z)
\* is solid up to w.ground, items of w.mobs are mobile blocks, the rest is air
block_at(w, x, y, z) ==
    IF y <= w.ground[<<x, z>>] THEN w.mat[<<x, z>>]
    ELSE IF <<x, y, z>> \in w.mobs THEN <<MOBILE_BLOCK, 0>>
    ELSE <<0, 0>>

\* the condition of get_block_info: B is not air, not the block at the location, not
\* the block at the agent's position and not a mobile block
is_surface(B, x, height, z, loc, apos) ==
    /\ B[1] # 0
    /\ (x # loc[1] \/ z # loc[3] \/ height # loc[2])
    /\ (x # apos[1] \/ z # apos[3] \/ height # apos[2])
    /\ B[1] # MOBILE_BLOCK

RECURSIVE get_block_info(_, _, _, _, _, _)
\* scan the column (x, z) downwards from height: <<height, (id, meta)>> of the surface
get_block_info(w, apos, loc, x, z, height) ==
    IF is_surface(block_at(w, x, height, z), x, height, z, loc, apos)
    THEN << height, block_at(w, x, height, z) >>
    ELSE get_block_info(w, apos, loc, x, z, height - 1)

max_height_of(L) == L.location[2] + CEILING_FUDGE
map_size_of(L) == L.radius * 2 + 1
ColumnsOf(L) == (0 .. map_size_of(L) - 1) \X (0 .. map_size_of(L) - 1)

\* (x - radius + sx, y, z - radius + sz): window column and height to world
absolute(L, x, y, z) == << x - L.radius + L.location[1], y, z - L.radius + L.location[3] >>

\* the order of the tuples (h, (x, y, z)) in the heap
item_less(a, b) ==
    \/ a[1] < b[1]
    \/ a[1] = b[1] /\ lexLess(a[2], b[2])

\* heapq.heappop: the index of the least item of the queue
heap_min(queue) ==
    CHOOSE k \in 1 .. Len(queue) :
        /\ \A m \in 1 .. Len(queue) : ~ item_less(queue[m], queue[k])
        /\ \A m \in 1 .. k - 1 : queue[m] # queue[k]

without_nothing(queue, k) == queue

\* the queue after the pop of its k-th item
without(queue, k) == [n \in 1 .. Len(queue) - 1 |-> IF n < k THEN queue[n] ELSE queue[n + 1]]

gx == <<0, 0, -1, 1>>
gz == <<1, -1, 0, 0>>

outside_ignored(bh) == bh

\* line 416: a neighbour outside the window ends the call with the sentinel
outside_result(bh) == DFS_OUTSIDE

rim_idm_kept(idm, neighbour_idm) == idm

\* line 413: current_idm = idm_map[nx][nz]
rim_idm(idm, neighbour_idm) == neighbour_idm

RECURSIVE run_frame(_, _, _, _, _, _, _)
\* the for loop of dfs(x, y, z) from direction d on, with build_height bh and
\* current_idm idm, up to its next recursive call on an unvisited cell ("call") or its
\* return ("ret"); dfs of a visited cell returns DFS_INITIAL at once
run_frame(L, y, x, z, d, bh, idm) ==
    IF d = 4 THEN [kind |-> "ret", val |-> bh, idm |-> idm]
    ELSE LET nx == x + gx[d + 1]
             nz == z + gz[d + 1]
         IN IF nx >= 0 /\ nz >= 0 /\ nx < map_size_of(L) /\ nz < map_size_of(L)
            THEN IF L.height_map[<<x, z>>] = L.height_map[<<nx, nz>>]
                 THEN IF <<nx, y, nz>> \in L.visited
                      THEN run_frame(L, y, x, z, d + 1, Min(bh, DFS_INITIAL), idm)
                      ELSE [kind |-> "call", nx |-> nx, nz |-> nz, d |-> d, bh |-> bh,
                            idm |-> idm]
                 ELSE run_frame(L, y, x, z, d + 1, Min(bh, L.height_map[<<nx, nz>>]),
                                rim_idm(idm, L.idm_map[<<nx, nz>>]))
            ELSE [kind |-> "ret", val |-> outside_result(bh), idm |-> idm]

accepts_strictly(build_height, h) == build_height > h

\* if build_height >= h
accepts(build_height, h) == build_height >= h

merge_skipped(holes, cur_hid, hid) == holes

\* lines 448-450: the coordinates of hole hid move into hole cur_hid and hole hid is
\* voided (hole ids count from 0)
merge_into(holes, cur_hid, hid) ==
    [holes EXCEPT ![cur_hid + 1] = << holes[cur_hid + 1][1] \o holes[hid + 1][1],
                                      holes[cur_hid + 1][2] >>,
                  ![hid + 1] = << << >>, <<0, 0>> >>]

raise_skipped(height) == height

\* line 447: height_map[rx][rz] += 1
raise_column(height) == height + 1

owner_unrecorded(cur_hid) == NO_HOLE

\* line 451: hid_map[rx][rz] = cur_hid
owner_after(cur_hid) == cur_hid

RECURSIVE accept_loop(_, _, _, _, _)
\* the loop over current_connected_comp of an accepted region, from its n-th cell:
\* st holds blocks_queue, height_map, hid_map and holes
accept_loop(L, st, comp, n, cur_hid) ==
    IF n > Len(comp) THEN st
    ELSE LET rx == comp[n][1] - L.location[1] + L.radius
             ry == comp[n][2] + 1
             rz == comp[n][3] - L.location[3] + L.radius
             hid == st.hid_map[<<rx, rz>>]
         IN accept_loop(L,
                [blocks_queue |-> Append(st.blocks_queue, << ry, <<rx, ry, rz>> >>),
                 height_map |-> [st.height_map EXCEPT ![<<rx, rz>>] = raise_column(@)],
                 hid_map |-> [st.hid_map EXCEPT ![<<rx, rz>>] = owner_after(cur_hid)],
                 holes |-> IF hid # NO_HOLE THEN merge_into(st.holes, cur_hid, hid)
                           ELSE st.holes],
                comp, n + 1, cur_hid)

keeps_every_block(idm) == TRUE

\* "if d == 0" of the post-filter: the re-queried block is air
is_air(idm) == idm[1] = 0

\* util.fill_idmeta and the list comprehension of line 458
remove_non_air(w, xyzs) ==
    LET keep(xyz) == is_air(block_at(w, xyz[1], xyz[2], xyz[3])) IN SelectSeq(xyzs, keep)

\* lines 456-464: the holes with their air cells only, the empty ones dropped
post_filter(w, holes) ==
    LET filtered == [n \in 1 .. Len(holes) |-> << remove_non_air(w, holes[n][1]), holes[n][2] >>]
        nonempty(hole) == Len(hole[1]) > 0
    IN SelectSeq(filtered, nonempty)

\* the locals of an invocation before its first statement; pops counts the
\* iterations of the while loop of line 426
NewFrame(location, radius) ==
    [location |-> location, radius |-> radius, pc |-> "start",
     height_map |-> << >>, idm_map |-> << >>, hid_map |-> << >>, visited |-> {},
     blocks_queue |-> << >>, holes |-> << >>, h |-> 0, xyz |-> <<0, 0, 0>>,
     stack |-> << >>, build_height |-> 0, result |-> << >>, pops |-> 0]

\* lines 368-377 and 420-425: the locals, the globals, the height map and the queue
Start ==
    \E i \in DOMAIN frames :
    LET L == frames[i]
        ms == map_size_of(L)
        info == [c \in ColumnsOf(L) |->
                    get_block_info(world, agent_pos, L.location,
                                   c[1] - L.radius + L.location[1],
                                   c[2] - L.radius + L.location[3], max_height_of(L))]
    IN /\ L.pc = "start"
       /\ frames' = [frames EXCEPT ![i] =
             [L EXCEPT !.pc = "sweep",
                       !.height_map = [c \in ColumnsOf(L) |-> info[c][1]],
                       !.idm_map = [c \in ColumnsOf(L) |-> info[c][2]],
                       !.hid_map = [c \in ColumnsOf(L) |-> NO_HOLE],
                       !.visited = {},
                       !.holes = << >>,
                       !.blocks_queue =
                           [n \in 1 .. ms * ms |->
                               LET c == << (n - 1) \div ms, (n - 1) % ms >>
                               IN << info[c][1] + 1, << c[1], info[c][1] + 1, c[2] >> >>]]]
       /\ current_connected_comp' = << >>
       /\ current_idm' = <<2, 0>>
       /\ UNCHANGED <<world, agent_pos, pureVars>>

\* lines 426-439: pop a candidate; skip it, or fail the sanity check, or reset the
\* globals and enter dfs(x, y, z)
Pop ==
    \E i \in DOMAIN frames :
    LET L == frames[i]
        k == heap_min(L.blocks_queue)
        h == L.blocks_queue[k][1]
        xyz == L.blocks_queue[k][2]
        rest == without(L.blocks_queue, k)
    IN /\ L.pc = "sweep"
       /\ Len(L.blocks_queue) > 0
       /\ IF xyz \in L.visited \/ xyz[2] > max_height_of(L)
          THEN /\ frames' = [frames EXCEPT ![i] = [L EXCEPT !.blocks_queue = rest, !.pops = @ + 1]]
               /\ UNCHANGED <<current_connected_comp, current_idm>>
          ELSE IF h # L.height_map[<<xyz[1], xyz[3]>>] + 1
          THEN /\ frames' = [frames EXCEPT ![i] =
                     [L EXCEPT !.blocks_queue = rest, !.pops = @ + 1, !.h = h, !.xyz = xyz,
                               !.pc = "AssertionError"]]
               /\ UNCHANGED <<current_connected_comp, current_idm>>
          ELSE /\ frames' = [frames EXCEPT ![i] =
                     [L EXCEPT !.blocks_queue = rest, !.pops = @ + 1, !.h = h, !.xyz = xyz,
                               !.visited = @ \cup {xyz},
                               !.stack = << [x |-> xyz[1], z |-> xyz[3], d |-> 0,
                                             bh |-> DFS_INITIAL] >>,
                               !.pc = "dfs"]]
               /\ current_connected_comp' = << absolute(L, xyz[1], xyz[2], xyz[3]) >>
               /\ current_idm' = <<2, 0>>
       /\ UNCHANGED <<world, agent_pos, pureVars>>

\* lines 396-417: the innermost dfs call runs to its next recursive call or returns
DfsStep ==
    \E i \in DOMAIN frames :
    LET L == frames[i]
        n == Len(L.stack)
        top == L.stack[n]
        y == L.xyz[2]
        r == run_frame(L, y, top.x, top.z, top.d, top.bh, current_idm)
    IN /\ L.pc = "dfs"
       /\ current_idm' = r.idm
       /\ IF r.kind = "call"
          THEN /\ frames' = [frames EXCEPT ![i] =
                     [L EXCEPT !.visited = @ \cup {<<r.nx, y, r.nz>>},
                               !.stack = Append([L.stack EXCEPT ![n] =
                                                    [top EXCEPT !.d = r.d, !.bh = r.bh]],
                                                [x |-> r.nx, z |-> r.nz, d |-> 0,
                                                 bh |-> DFS_INITIAL])]]
               /\ current_connected_comp' =
                     Append(current_connected_comp, absolute(L, r.nx, y, r.nz))
          ELSE /\ frames' = [frames EXCEPT ![i] =
                     IF n = 1
                     THEN [L EXCEPT !.stack = << >>, !.build_height = r.val, !.pc = "decide"]
                     ELSE [L EXCEPT !.stack =
                              Append(SubSeq(L.stack, 1, n - 2),
                                     [L.stack[n - 1] EXCEPT !.d = @ + 1,
                                                            !.bh = Min(@, r.val)])]]
               /\ UNCHANGED current_connected_comp
       /\ UNCHANGED <<world, agent_pos, pureVars>>

\* lines 440-451: record the region as a hole when its rim is high enough
Decide ==
    \E i \in DOMAIN frames :
    LET L == frames[i]
        st == accept_loop(L,
                  [blocks_queue |-> L.blocks_queue, height_map |-> L.height_map,
                   hid_map |-> L.hid_map,
                   holes |-> Append(L.holes, << current_connected_comp, current_idm >>)],
                  current_connected_comp, 1, Len(L.holes))
    IN /\ L.pc = "decide"
       /\ frames' = [frames EXCEPT ![i] =
             IF accepts(L.build_height, L.h)
             THEN [L EXCEPT !.pc = "sweep", !.blocks_queue = st.blocks_queue,
                            !.height_map = st.height_map, !.hid_map = st.hid_map,
                            !.holes = st.holes]
             ELSE [L EXCEPT !.pc = "sweep"]]
       /\ UNCHANGED <<world, agent_pos, current_connected_comp, current_idm, pureVars>>

\* lines 453-464: the queue is empty; filter the holes and return them
Finish ==
    \E i \in DOMAIN frames :
    LET L == frames[i]
    IN /\ L.pc = "sweep"
       /\ Len(L.blocks_queue) = 0
       /\ frames' = [frames EXCEPT ![i] =
             [L EXCEPT !.pc = "done", !.result = post_filter(world, L.holes)]]
       /\ UNCHANGED <<world, agent_pos, current_connected_comp, current_idm, pureVars>>

NextHoles == Start \/ Pop \/ DfsStep \/ Decide \/ Finish

PureIdle ==
    /\ fn = "idle"
    /\ arg = << >>
    /\ ret = None

(***************************************************************************)
(* Specifications of the pure functions: Init draws the arguments, one     *)
(* action per function applies it.                                         *)
(***************************************************************************)
HolesIdle ==
    /\ world = << >>
    /\ agent_pos = <<0, 0, 0>>
    /\ frames = << >>
    /\ current_connected_comp = << >>
    /\ current_idm = <<0, 0>>

Shape == <<NY, NZ, NX>>

\* X: a boolean array with at most MaxTrue true cells
InitCC ==
    /\ fn = "idle"
    /\ \E S \in KSubsets(CellsOf(Shape), MaxTrue) :
          arg = [X |-> [c \in CellsOf(Shape) |-> c \in S]]
    /\ ret = None
    /\ HolesIdle

CallConnectedComponents ==
    /\ fn = "idle"
    /\ fn' = "connected_components"
    /\ ret' = Value(connected_components(arg.X, Shape))
    /\ UNCHANGED <<arg, holeVars>>

SpecCC == InitCC /\ [][CallConnectedComponents]_vars

\* blocks: an id array of stone with at most MaxTrue cells of air, planks or water;
\* pos: any cell of it
InitAcc ==
    /\ fn = "idle"
    /\ \E S \in KSubsets(CellsOf(Shape), MaxTrue) : \E f \in [S -> {0, 5, 8}] :
          \E p \in CellsOf(Shape) :
              arg = [blocks |-> [c \in CellsOf(Shape) |-> IF c \in S THEN f[c] ELSE 1],
                     pos |-> p]
    /\ ret = None
    /\ HolesIdle

CallAccessibleInterestingBlocks ==
    /\ fn = "idle"
    /\ fn' = "accessible_interesting_blocks"
    /\ ret' = Value(accessible_interesting_blocks(arg.blocks, arg.pos))
    /\ UNCHANGED <<arg, holeVars>>

SpecAcc == InitAcc /\ [][CallAccessibleInterestingBlocks]_vars

\* the world coordinates of the window of the given radius around pos
Window(pos, radius) ==
    (pos[1] - radius .. pos[1] + radius) \X (pos[2] - radius .. pos[2] + radius)
        \X (pos[3] - radius .. pos[3] + radius)

\* positions (in halves) the locators are asked about: (0, 0, 0) and (4.5, -2, 7)
PosInputs == { <<0, 0, 0>>, <<9, -4, 14>> }

\* the snapshot is stone around pos, except that the cell at pos is air, stone, planks
\* or water and at most MaxObjCells other cells of the window are air, planks or water
InitObj ==
    /\ fn = "idle"
    /\ \E p2 \in PosInputs :
          \E S \in KSubsets(Window(np_round(p2), max_radius) \ {np_round(p2)}, MaxObjCells) :
             \E f \in [S -> {<<0, 0>>, <<5, 2>>, <<8, 0>>}] :
                \E k \in {<<0, 0>>, <<1, 0>>, <<5, 2>>, <<8, 0>>} :
                   arg = [w |-> [c \in Window(np_round(p2), max_radius) |->
                                   IF c = np_round(p2) THEN k
                                   ELSE IF c \in S THEN f[c] ELSE <<1, 0>>],
                          pos2 |-> p2]
    /\ ret = None
    /\ HolesIdle

CallClosestNearbyObject ==
    /\ fn = "idle"
    /\ fn' = "closest_nearby_object"
    /\ ret' = closest_nearby_object(arg.w, arg.pos2, max_radius)
    /\ UNCHANGED <<arg, holeVars>>

SpecObj == InitObj /\ [][CallClosestNearbyObject]_vars

Grid(side) == (0 .. side - 1) \X (0 .. side - 1) \X (0 .. side - 1)

\* the 8 cells around c in the plane through c orthogonal to axis i (1-based)
RingAround(c, i) ==
    { p \in (c[1] - 1 .. c[1] + 1) \X (c[2] - 1 .. c[2] + 1) \X (c[3] - 1 .. c[3] + 1) :
        p[i] = c[i] /\ p # c }

\* e0: one point of the grid or just outside it, or two points
InsideE0 ==
    { {<<1, 1, 1>>}, {<<1, 1, 0>>}, {<<0, 1, 1>>}, {<<2, 2, 2>>}, {<<3, 1, 1>>},
      {<<0, 0, 0>>, <<1, 1, 1>>} }

\* e1: at most MaxPts points of the grid, or a square ring around the grid's centre
InitInside ==
    /\ fn = "idle"
    /\ \E a \in InsideE0 :
          \E b \in (KSubsets(Grid(GridSide), MaxPts) \ {{}})
                      \cup { RingAround(<<1, 1, 1>>, i) : i \in 1 .. 3 } :
             arg = [entities |-> << Entity(a), Entity(b) >>]
    /\ ret = None
    /\ HolesIdle

CallCheckInside ==
    /\ fn = "idle"
    /\ fn' = "check_inside"
    /\ ret' = check_inside(arg.entities)
    /\ UNCHANGED <<arg, holeVars>>

SpecInside == InitInside /\ [][CallCheckInside]_vars

\* entity references of the relation calls: without coordinates, a point, a pair
RelEntityInputs == { NoLocs, Entity({<<1, 1, 1>>}), Entity({<<3, 1, 1>>, <<3, 2, 5>>}) }

RelInputs(RelEntities) ==
    { << >> } \cup { <<a>> : a \in RelEntities }
        \cup { <<a, b>> : a \in RelEntities, b \in RelEntities }
        \cup { <<a, b, c>> : a \in RelEntities, b \in RelEntities, c \in RelEntities }

InitRel ==
    /\ fn = "idle"
    /\ arg \in { [entities |-> l] : l \in RelInputs(RelEntityInputs) }
    /\ ret = None
    /\ HolesIdle

CallCheckBetween ==
    /\ fn = "idle"
    /\ fn' = "check_between"
    /\ ret' = check_between(arg.entities)
    /\ UNCHANGED <<arg, holeVars>>

CallFindBetween ==
    /\ fn = "idle"
    /\ fn' = "find_between"
    /\ ret' = find_between(arg.entities)
    /\ UNCHANGED <<arg, holeVars>>

\* find_inside takes one entity: any one of the list
CallFindInside ==
    /\ fn = "idle"
    /\ \E n \in 1 .. Len(arg.entities) :
          /\ fn' = "find_inside"
          /\ arg' = [entities |-> << arg.entities[n] >>]
          /\ ret' = find_inside(arg.entities[n])
    /\ UNCHANGED holeVars

NextRel == CallCheckBetween \/ CallFindBetween \/ CallCheckInside \/ CallFindInside

SpecRel == InitRel /\ [][NextRel]_vars

(***************************************************************************)
(* Specifications of the hole sweep: one invocation of                     *)
(* get_all_nearby_holes on a snapshot of the world.                        *)
(***************************************************************************)
HoleOrigin == <<10, 20>>

\* the columns of the window of the given radius around HoleOrigin
WorldColumns(radius) ==
    (HoleOrigin[1] - radius .. HoleOrigin[1] + radius)
        \X (HoleOrigin[2] - radius .. HoleOrigin[2] + radius)

\* the block of a column by its height over the floor: dirt floor, stone walls,
\* sand and gravel in the depressions
MaterialOf(dh) ==
    CASE dh = 0 -> <<3, 0>>
      [] dh > 0 -> <<1, 0>>
      [] dh = -1 -> <<12, 0>>
      [] OTHER -> <<13, 0>>

\* a floor at height base with the columns of DOMAIN dev off by dev[c]
Terrain(radius, base, dev, mobs) ==
    [ground |-> [c \in WorldColumns(radius) |->
                    IF c \in DOMAIN dev THEN base + dev[c] ELSE base],
     mat |-> [c \in WorldColumns(radius) |->
                    IF c \in DOMAIN dev THEN MaterialOf(dev[c]) ELSE MaterialOf(0)],
     mobs |-> mobs]

\* where the sweep is centred and where the agent stands, on the ground g:
\* in the air over the centre; the location on the top block of the centre column;
\* the agent's position on the top block of a neighbour column; a mobile block on a
\* neighbour column; the location deep under the ground
Placements(g) ==
    LET sx == HoleOrigin[1]
        sz == HoleOrigin[2]
    IN { [location |-> <<sx, BaseHeight + 1, sz>>, agent_pos |-> <<sx, BaseHeight + 1, sz>>,
          mobs |-> {}],
         [location |-> <<sx, g[<<sx, sz>>], sz>>, agent_pos |-> <<sx, g[<<sx, sz>>] + 1, sz>>,
          mobs |-> {}],
         [location |-> <<sx, BaseHeight + 1, sz>>,
          agent_pos |-> <<sx + 1, g[<<sx + 1, sz>>], sz>>, mobs |-> {}],
         [location |-> <<sx, BaseHeight + 1, sz>>, agent_pos |-> <<sx, BaseHeight + 1, sz>>,
          mobs |-> {<<sx - 1, g[<<sx - 1, sz>>] + 1, sz>>}],
         [location |-> <<sx, BaseHeight - 4, sz>>, agent_pos |-> <<sx, BaseHeight + 1, sz>>,
          mobs |-> {}] }

\* the columns whose height may differ from the floor's: two on the edge of the
\* window, the centre and three of its neighbours
DevColumns ==
    { <<HoleOrigin[1] + o[1], HoleOrigin[2] + o[2]>> :
        o \in { <<0 - HoleRadius, 0>>, <<0 - HoleRadius, -1>>, <<-1, 0>>, <<-1, -1>>,
                <<0, 0>>, <<1, 0>> } }

InitHoles ==
    /\ PureIdle
    /\ \E D \in KSubsets(DevColumns, MaxDev) : \E dev \in [D -> {-2, -1, 1}] :
         \E p \in Placements(Terrain(HoleRadius, BaseHeight, dev, {}).ground) :
            /\ world = Terrain(HoleRadius, BaseHeight, dev, p.mobs)
            /\ agent_pos = p.agent_pos
            /\ frames = << NewFrame(p.location, HoleRadius) >>
    /\ current_connected_comp = << >>
    /\ current_idm = <<0, 0>>

SpecHoles == InitHoles /\ [][NextHoles]_vars

\* the sweep is synchronous code: while a statement is left to run, it runs
SpecHolesFair == InitHoles /\ [][NextHoles]_vars /\ WF_vars(NextHoles)

\* the 3x3 block of columns around c, lowered by depth
PitAt(c, depth) ==
    [k \in (c[1] - 1 .. c[1] + 1) \X (c[2] - 1 .. c[2] + 1) |-> 0 - depth]

\* a flat floor whose only depression is a 3x3 pit of depth 1 inside the window; the
\* location is in the air, one or two blocks over the centre column
InitPit ==
    /\ PureIdle
    /\ \E radius \in 2 .. PitMaxRadius :
         \E c \in WorldColumns(radius - 2) : \E up \in 1 .. 2 : \E standsAside \in BOOLEAN :
            LET w == Terrain(radius, BaseHeight, PitAt(c, 1), {})
                sx == HoleOrigin[1]
                sz == HoleOrigin[2]
            IN /\ world = w
               /\ frames = << NewFrame(<<sx, w.ground[<<sx, sz>>] + up, sz>>, radius) >>
               /\ agent_pos = IF standsAside
                              THEN <<sx + 1, w.ground[<<sx + 1, sz>>] + 1, sz>>
                              ELSE <<sx, w.ground[<<sx, sz>>] + up, sz>>
    /\ current_connected_comp = << >>
    /\ current_idm = <<0, 0>>

SpecPit == InitPit /\ [][NextHoles]_vars

\* the ring of 16 columns around the 3x3 pit at c
RingOf(c) ==
    ((c[1] - 2 .. c[1] + 2) \X (c[2] - 2 .. c[2] + 2)) \ DOMAIN PitAt(c, 1)

\* a 3x3 pit one below the floor with a ring of walls one above the floor
WalledPit(c) ==
    [k \in DOMAIN PitAt(c, 1) \cup RingOf(c) |-> IF k \in RingOf(c) THEN 1 ELSE -1]

\* radius 10, floor at height 10, the pit at height 9 centred in the window, its
\* walls at height 11; the location is in the air over the pit's centre
InitScenario ==
    /\ PureIdle
    /\ \E up \in 1 .. 2 : \E standsAside \in BOOLEAN :
            LET w == Terrain(ScenarioRadius, FloorHeight, WalledPit(HoleOrigin), {})
                sx == HoleOrigin[1]
                sz == HoleOrigin[2]
            IN /\ world = w
               /\ frames = << NewFrame(<<sx, w.ground[<<sx, sz>>] + up, sz>>, ScenarioRadius) >>
               /\ agent_pos = IF standsAside
                              THEN <<sx + 1, w.ground[<<sx + 1, sz>>] + 1, sz>>
                              ELSE <<sx, w.ground[<<sx, sz>>] + up, sz>>
    /\ current_connected_comp = << >>
    /\ current_idm = <<0, 0>>

SpecScenario == InitScenario /\ [][NextHoles]_vars

\* two invocations on one snapshot, a floor with a one-column pit of depth 1 at the
\* common location; their steps interleave in any order, and both use the module
\* globals current_connected_comp and current_idm (lines 375-377, 402)
InitTwo ==
    /\ PureIdle
    /\ LET w == Terrain(TwoRadius, BaseHeight, [c \in {HoleOrigin} |-> -1], {})
           location == <<HoleOrigin[1], w.ground[HoleOrigin] + 1, HoleOrigin[2]>>
       IN /\ world = w
          /\ frames = << NewFrame(location, TwoRadius), NewFrame(location, TwoRadius) >>
          /\ agent_pos = location
    /\ current_connected_comp = << >>
    /\ current_idm = <<0, 0>>

SpecTwo == InitTwo /\ [][NextHoles]_vars

(***************************************************************************)
(* Claims about the pure functions.                                        *)
(***************************************************************************)
Range(seq) == { seq[n] : n \in 1 .. Len(seq) }

\* C1: connected_components(X) partitions the true cells of X: the union of the
\* components is the set of true cells, no cell occurs in two components or twice
\* in one, and a mask without true cells gives the empty list.
C1_ComponentsPartitionTrueCells ==
    fn = "connected_components" =>
        LET components == ret.val
            trueCells == { p \in DOMAIN arg.X : arg.X[p] }
        IN /\ UNION { Range(components[n]) : n \in 1 .. Len(components) } = trueCells
           /\ \A n \in 1 .. Len(components) :
                 /\ Len(components[n]) > 0
                 /\ Cardinality(Range(components[n])) = Len(components[n])
                 /\ \A m \in 1 .. Len(components) :
                       m # n => Range(components[n]) \cap Range(components[m]) = {}
           /\ (trueCells = {} => components = << >>)

\* a mask with two components, one of them of several cells, has been labelled
C1_Witness ==
    /\ fn = "connected_components"
    /\ Len(ret.val) = 2
    /\ \E n \in 1 .. 2 : Len(ret.val[n]) >= 2

\* cells that share a face
FaceAdjacent(p, q) == Abs(p[1] - q[1]) + Abs(p[2] - q[2]) + Abs(p[3] - q[3]) = 1

RECURSIVE PathTo(_, _)
\* the cells of ok from which a path of face-adjacent cells of ok leads into R
PathTo(ok, R) ==
    LET more == { q \in ok \ R : \E p \in R : FaceAdjacent(p, q) }
    IN IF more = {} THEN R ELSE PathTo(ok, R \cup more)

\* a path of adjacent cells of the array from a to b, every cell on it in ok
HasPath(ok, a, b) == a \in ok /\ b \in ok /\ a \in PathTo(ok, {b})

\* C2: the mask of accessible_interesting_blocks is true at a cell exactly when the
\* cell is interesting and a path of adjacent in-bounds cells, all passable or
\* interesting, leads from the start cell to it.
C2_MaskIsReachableInteresting ==
    fn = "accessible_interesting_blocks" =>
        LET ok == { c \in DOMAIN arg.blocks :
                       arg.blocks[c] \in PASSABLE_BLOCKS \/ arg.blocks[c] \notin BORING_BLOCKS }
        IN \A c \in DOMAIN arg.blocks :
              ret.val[c] <=> (arg.blocks[c] \notin BORING_BLOCKS /\ HasPath(ok, arg.pos, c))

\* one interesting cell is reached from a passable start cell, another is sealed off
C2_Witness ==
    /\ fn = "accessible_interesting_blocks"
    /\ arg.blocks[arg.pos] = 0
    /\ \E c \in DOMAIN arg.blocks : ret.val[c]
    /\ \E c \in DOMAIN arg.blocks : arg.blocks[c] \notin BORING_BLOCKS /\ ~ ret.val[c]

\* the interesting cells of a snapshot, in world coordinates
InterestingOf(w) == { c \in DOMAIN w : w[c][1] \notin BORING_BLOCKS }

\* cells that share a face, an edge or a corner
Touching(p, q) ==
    p # q /\ Abs(p[1] - q[1]) <= 1 /\ Abs(p[2] - q[2]) <= 1 /\ Abs(p[3] - q[3]) <= 1

RECURSIVE TouchClosure(_, _)
TouchClosure(S, R) ==
    LET more == { q \in S \ R : \E p \in R : Touching(p, q) }
    IN IF more = {} THEN R ELSE TouchClosure(S, R \cup more)

\* the interesting cells of w form exactly one 26-connected component
OneComponent(w) ==
    /\ InterestingOf(w) # {}
    /\ \A c \in InterestingOf(w) : TouchClosure(InterestingOf(w), {c}) = InterestingOf(w)

\* every interesting cell of w is reached from the start cell through passable or
\* interesting cells
AllAccessible(w, start) ==
    LET ok == { c \in DOMAIN w : w[c][1] \in PASSABLE_BLOCKS \/ w[c][1] \notin BORING_BLOCKS }
    IN \A c \in InterestingOf(w) : HasPath(ok, start, c)

\* 2 * n times the Manhattan distance from pos to the centroid of the n cells of obj
CentroidDist(obj, pos2) ==
    LET P == { obj[m][1] : m \in 1 .. Len(obj) }
        n == Len(obj)
        D(a) == Abs(2 * SumOver(P, [c \in P |-> c[a]]) - n * pos2[a])
    IN D(1) + D(2) + D(3)

\* the result is a component of all_nearby_objects with a nearest centroid, or None
\* when there is no component
ClosestIsNearest ==
    LET objects == all_nearby_objects(arg.w, arg.pos2, max_radius)
    IN IF Len(objects) = 0 THEN ret = None
       ELSE /\ ret.tag = "value"
            /\ \E n \in 1 .. Len(objects) : objects[n] = ret.val
            /\ \A n \in 1 .. Len(objects) :
                  CentroidDist(ret.val, arg.pos2) * Len(objects[n])
                      <= CentroidDist(objects[n], arg.pos2) * Len(ret.val)

\* the result is every interesting cell of the snapshot, once, at its world coordinate
\* and with the snapshot's (id, meta)
ClosestIsWholeComponent ==
    /\ ret.tag = "value"
    /\ Len(ret.val) = Cardinality(InterestingOf(arg.w))
    /\ Range(ret.val) = { <<c, arg.w[c]>> : c \in InterestingOf(arg.w) }

\* C7 as stated: the nearest component is returned, None without components, and in
\* a world with exactly one connected interesting component that component's full
\* set of cells with world coordinates and the snapshot's (id, meta).
C7_AsStated ==
    fn = "closest_nearby_object" =>
        /\ ClosestIsNearest
        /\ OneComponent(arg.w) => ClosestIsWholeComponent

\* C7 amended: as stated, the full component being returned when each of its cells
\* is accessible from pos; every returned pair is an interesting cell of the
\* snapshot with the snapshot's (id, meta).
C7_ClosestNearbyObject ==
    fn = "closest_nearby_object" =>
        /\ ClosestIsNearest
        /\ ret.tag = "value" =>
              Range(ret.val) \subseteq { <<c, arg.w[c]>> : c \in InterestingOf(arg.w) }
        /\ (OneComponent(arg.w) /\ AllAccessible(arg.w, np_round(arg.pos2)))
              => ClosestIsWholeComponent

\* a single accessible component of several cells is returned, away from the origin
C7_Witness ==
    /\ fn = "closest_nearby_object"
    /\ OneComponent(arg.w)
    /\ AllAccessible(arg.w, np_round(arg.pos2))
    /\ arg.pos2 # <<0, 0, 0>>
    /\ ret.tag = "value"
    /\ Len(ret.val) >= 2

\* two components at different distances: the nearer one is returned
C7_TwoObjects ==
    /\ fn = "closest_nearby_object"
    /\ Len(all_nearby_objects(arg.w, arg.pos2, max_radius)) = 2
    /\ LET o == all_nearby_objects(arg.w, arg.pos2, max_radius)
       IN CentroidDist(o[2], arg.pos2) * Len(o[1]) < CentroidDist(o[1], arg.pos2) * Len(o[2])

\* E has points on the line through b along axis a (equal to b on the other two
\* axes) strictly on both sides of b
BracketedAlong(b, E, a) ==
    LET line == { c \in E : \A o \in (1 .. 3) \ {a} : c[o] = b[o] }
    IN (\E c \in line : c[a] < b[a]) /\ (\E c \in line : c[a] > b[a])

\* in the slice through b orthogonal to some axis, E brackets b along both other axes
Enclosed(b, E) == \E i \in 1 .. 3 : \A a \in (1 .. 3) \ {i} : BracketedAlong(b, E, a)

\* b lies outside the axis-aligned bounding box of E
OutsideBox(b, E) == \E a \in 1 .. 3 : (\A c \in E : c[a] > b[a]) \/ (\A c \in E : c[a] < b[a])

\* C8: check_inside([e0, e1]) is true exactly when some coordinate of e0 is, in the
\* slice orthogonal to some axis, bracketed by e1 strictly on both sides along each
\* of the two other axes; the centre of a 3x3 square ring is inside, a point outside
\* the bounding box of e1 is not.
C8_CheckInsideBrackets ==
    (fn = "check_inside" /\ Len(arg.entities) = 2) =>
        LET e0 == arg.entities[1].locs
            e1 == arg.entities[2].locs
        IN /\ ret.tag = "value"
           /\ ret.val <=> \E b \in e0 : Enclosed(b, e1)
           /\ \A b \in e0 : \A i \in 1 .. 3 : (e0 = {b} /\ e1 = RingAround(b, i)) => ret.val
           /\ \A b \in e0 : (e0 = {b} /\ OutsideBox(b, e1)) => ~ ret.val

\* the centre of a square ring has been found inside it
C8_Witness ==
    /\ fn = "check_inside"
    /\ Len(arg.entities) = 2
    /\ \E i \in 1 .. 3 : arg.entities[2].locs = RingAround(<<1, 1, 1>>, i)
    /\ arg.entities[1].locs = {<<1, 1, 1>>}
    /\ ret = True

RelationFns == {"check_between", "check_inside", "find_between", "find_inside"}

\* C9: the relation heuristics never raise, and an entity without extractable
\* coordinates anywhere in the list makes check_between and check_inside false and
\* find_between and find_inside none.
C9_RelationsNeverRaise ==
    fn \in RelationFns =>
        /\ ret.tag # "raise"
        /\ some_without_locs(arg.entities) =>
              IF fn \in {"check_between", "check_inside"} THEN ret = False ELSE ret = None

\* the mean of the coordinates of e0 plus that of e1, halved, as the fraction
\* num / den on each axis
Midpoint(e0, e1) ==
    LET n0 == Cardinality(e0)
        n1 == Cardinality(e1)
        S(E, a) == SumOver(E, [c \in E |-> c[a]])
    IN [num |-> << S(e0, 1) * n1 + S(e1, 1) * n0, S(e0, 2) * n1 + S(e1, 2) * n0,
                   S(e0, 3) * n1 + S(e1, 3) * n0 >>,
        den |-> 2 * n0 * n1]

\* C10: for two entities with extractable coordinates find_between returns the
\* midpoint of their mean coordinates.
C10_FindBetweenMidpoint ==
    (/\ fn = "find_between"
     /\ Len(arg.entities) = 2
     /\ ~ some_without_locs(arg.entities))
        => ret = Value(Midpoint(arg.entities[1].locs, arg.entities[2].locs))

(***************************************************************************)
(* Claims about the hole sweep.                                            *)
(***************************************************************************)
Returned(i) == frames[i].pc = "done"

\* the coordinates of all holes invocation i returned
ReturnedCells(i) ==
    UNION { Range(frames[i].result[n][1]) : n \in 1 .. Len(frames[i].result) }

\* the height map as the sweep first computes it
SurfaceOf(L, c) ==
    get_block_info(world, agent_pos, L.location, c[1] - L.radius + L.location[1],
                   c[2] - L.radius + L.location[3], max_height_of(L))[1]

OnEdge(L, c) ==
    \/ c[1] \in {0, map_size_of(L) - 1}
    \/ c[2] \in {0, map_size_of(L) - 1}

FourNeighbours(c) ==
    { <<c[1], c[2] + 1>>, <<c[1], c[2] - 1>>, <<c[1] - 1, c[2]>>, <<c[1] + 1, c[2]>> }

RECURSIVE FlatRegion(_, _, _, _)
\* the maximal 4-connected set of window columns of surface height at around seen
FlatRegion(L, at, seen, frontier) ==
    LET new == { c \in (UNION { FourNeighbours(f) : f \in frontier }) \cap ColumnsOf(L) :
                    c \notin seen /\ SurfaceOf(L, c) = at }
    IN IF new = {} THEN seen ELSE FlatRegion(L, at, seen \cup new, new)

\* the window column of a world coordinate
ColumnOf(L, xyz) == << xyz[1] - L.location[1] + L.radius, xyz[3] - L.location[3] + L.radius >>

\* C3: a pit that touches the window boundary is never returned: when the flat region
\* of a column in the height map contains a column on the edge of the window, the cell
\* of that column at the region's layer is in no returned hole.
C3_BoundaryPitNeverReturned ==
    \A i \in DOMAIN frames : Returned(i) =>
        LET L == frames[i] IN
        \A xyz \in ReturnedCells(i) :
            LET c == ColumnOf(L, xyz)
                at == SurfaceOf(L, c)
            IN xyz[2] = at + 1 =>
                 \A e \in FlatRegion(L, at, {c}, {c}) : ~ OnEdge(L, e)

\* the columns of the world lower than base, at the height cells
CellsOver(w, base, heights) ==
    { <<c[1], y, c[2]>> : c \in { k \in DOMAIN w.ground : w.ground[k] < base }, y \in heights }

\* C4: a flat 3x3 pit of depth 1 inside the window, the only depression of a flat
\* floor, is returned as exactly one hole whose coordinates are the 9 cells of the
\* pit, each once.
C4_PitIsOneHoleOfNine ==
    \A i \in DOMAIN frames : Returned(i) =>
        /\ Len(frames[i].result) = 1
        /\ Len(frames[i].result[1][1]) = 9
        /\ Range(frames[i].result[1][1]) = CellsOver(world, BaseHeight, {BaseHeight})

C4_Witness ==
    \E i \in DOMAIN frames :
        /\ Returned(i)
        /\ frames[i].radius = PitMaxRadius
        /\ world.ground[HoleOrigin] = BaseHeight
        /\ Len(frames[i].result) = 1
        /\ Len(frames[i].holes) = 1

\* C5 as stated: in the scenario the sweep returns one hole of 9 coordinates, all at
\* the pit's height 9, filled with the block of the walls.
C5_AsStated ==
    \A i \in DOMAIN frames : Returned(i) =>
        /\ Len(frames[i].result) = 1
        /\ Len(frames[i].result[1][1]) = 9
        /\ \A xyz \in Range(frames[i].result[1][1]) : xyz[2] = FloorHeight - 1
        /\ frames[i].result[1][2] = MaterialOf(1)

\* C5: in the scenario the sweep returns one hole of 18 coordinates, the air cells
\* over the 9 columns of the pit at the heights 10 and 11 (up to the top of the
\* walls), filled with the block of the walls.
C5_ScenarioHole ==
    \A i \in DOMAIN frames : Returned(i) =>
        /\ Len(frames[i].result) = 1
        /\ Len(frames[i].result[1][1]) = 18
        /\ Range(frames[i].result[1][1])
             = CellsOver(world, FloorHeight, {FloorHeight, FloorHeight + 1})
        /\ frames[i].result[1][2] = MaterialOf(1)

C5_Witness ==
    \E i \in DOMAIN frames :
        /\ Returned(i)
        /\ frames[i].radius = ScenarioRadius
        /\ Len(frames[i].holes) = 2
        /\ Len(frames[i].result) = 1

\* C6: every coordinate of every returned hole is an air cell of the snapshot, and no
\* returned hole has an empty coordinate list.
C6_ReturnedCellsAreAir ==
    \A i \in DOMAIN frames : Returned(i) =>
        \A n \in 1 .. Len(frames[i].result) :
            /\ Len(frames[i].result[n][1]) > 0
            /\ \A xyz \in Range(frames[i].result[n][1]) :
                  block_at(world, xyz[1], xyz[2], xyz[3])[1] = 0

\* a sweep that accepted a hole holding a solid cell and returned another hole
C6_Witness ==
    \E i \in DOMAIN frames :
        /\ Returned(i)
        /\ Len(frames[i].result) > 0
        /\ \E n \in 1 .. Len(frames[i].holes) : \E xyz \in Range(frames[i].holes[n][1]) :
              block_at(world, xyz[1], xyz[2], xyz[3])[1] # 0

\* the sweep of invocation i is about to record the region it flooded as a hole
Accepting(i) == frames[i].pc = "decide" /\ accepts(frames[i].build_height, frames[i].h)

\* the window columns of the region the last dfs collected
MemberColumns(L) == { ColumnOf(L, xyz) : xyz \in Range(current_connected_comp) }

\* C12: a region recorded as a hole is a basin when it is accepted: its columns have
\* one height, and every column 4-adjacent to a member that is not a member lies in
\* the window and has a recorded height of at least the candidate height.
C12_AcceptedRegionIsBasin ==
    \A i \in DOMAIN frames : Accepting(i) =>
        LET L == frames[i]
            M == MemberColumns(L)
        IN /\ \A c \in M : L.height_map[c] + 1 = L.h
           /\ \A c \in M : \A n \in FourNeighbours(c) \ M :
                 /\ n \in ColumnsOf(L)
                 /\ L.height_map[n] >= L.h

\* C13: the sanity assertion of the sweep never fails: a candidate that is popped and
\* processed has the height of its column in the height map plus one.
C13_SanityAssertionHolds ==
    \A i \in DOMAIN frames :
        /\ frames[i].pc # "AssertionError"
        /\ frames[i].pc = "dfs" =>
              frames[i].h = frames[i].height_map[<<frames[i].xyz[1], frames[i].xyz[3]>>] + 1

\* a candidate re-pushed after an acceptance is being processed
C13_Witness ==
    \E i \in DOMAIN frames :
        /\ frames[i].pc = "dfs"
        /\ Len(frames[i].holes) > 0
        /\ frames[i].h > SurfaceOf(frames[i], <<frames[i].xyz[1], frames[i].xyz[3]>>) + 1

\* the (x, z) columns of the coordinates of a hole
HoleColumns(hole) == { <<xyz[1], xyz[3]>> : xyz \in Range(hole[1]) }

\* C14: layered acceptances of a column are merged into one hole: no two returned
\* holes hold coordinates of the same (x, z) column.
C14_LayersMergedIntoOneHole ==
    \A i \in DOMAIN frames : Returned(i) =>
        LET res == frames[i].result
        IN \A m \in 1 .. Len(res) : \A n \in 1 .. Len(res) :
              m # n => HoleColumns(res[m]) \cap HoleColumns(res[n]) = {}

\* a sweep that merged an older hole into a newer one and returned the newer one
\* with two layers of one column
C14_Witness ==
    \E i \in DOMAIN frames :
        /\ Returned(i)
        /\ \E n \in 1 .. Len(frames[i].holes) : frames[i].holes[n] = << << >>, <<0, 0>> >>
        /\ \E m \in 1 .. Len(frames[i].result) :
              \E a \in Range(frames[i].result[m][1]) : \E b \in Range(frames[i].result[m][1]) :
                 a[1] = b[1] /\ a[3] = b[3] /\ a[2] # b[2]

\* the recorded (id, meta) of the columns 4-adjacent to a member of the region whose
\* recorded height differs from the region's floor
RimMaterials(L) ==
    { L.idm_map[n] : n \in { k \in (UNION { FourNeighbours(c) : c \in MemberColumns(L) })
                                       \cap ColumnsOf(L) :
                                 L.height_map[k] # L.h - 1 } }

\* C15: the fill of a hole is drawn from its rim: when a region is accepted, the fill
\* recorded with it is the (id, meta) of a column 4-adjacent to a member whose height
\* differs from the floor's, and the fill of a returned hole is not the placeholder
\* (2, 0) set before the flood fill.
C15_FillDrawnFromRim ==
    \A i \in DOMAIN frames :
        /\ Accepting(i) => current_idm \in RimMaterials(frames[i])
        /\ Returned(i) =>
              \A n \in 1 .. Len(frames[i].result) : frames[i].result[n][2] # <<2, 0>>

\* a returned hole whose rim holds two different blocks, filled with one of them
C15_Witness ==
    \E i \in DOMAIN frames :
        /\ Returned(i)
        /\ \E n \in 1 .. Len(frames[i].result) :
              /\ frames[i].result[n][2] = MaterialOf(1)
              /\ \E xyz \in Range(frames[i].result[n][1]) :
                    \E k \in FourNeighbours(<<xyz[1], xyz[3]>>) :
                       k \in DOMAIN world.mat /\ world.mat[k] = MaterialOf(0)

\* the coordinates of all holes of a list, one entry per occurrence
RECURSIVE AllCoordinates(_)
AllCoordinates(holes) ==
    IF holes = << >> THEN << >> ELSE Head(holes)[1] \o AllCoordinates(Tail(holes))

NoDuplicates(seq) == \A m \in 1 .. Len(seq) : \A n \in 1 .. Len(seq) : seq[m] = seq[n] => m = n

\* C17: every coordinate of every accepted hole lies in a column strictly inside the
\* window, above the column's first recorded surface and at most at the ceiling
\* (location y + 5), and no coordinate occurs twice in the accepted holes or in the
\* result.
C17_HoleCoordinatesWellPlaced ==
    \A i \in DOMAIN frames :
        (frames[i].pc \in {"sweep", "done"}) =>
            LET L == frames[i]
                accepted == AllCoordinates(L.holes)
            IN /\ \A xyz \in Range(accepted) \cup ReturnedCells(i) :
                     /\ ~ OnEdge(L, ColumnOf(L, xyz))
                     /\ ColumnOf(L, xyz) \in ColumnsOf(L)
                     /\ xyz[2] > SurfaceOf(L, ColumnOf(L, xyz))
                     /\ xyz[2] <= max_height_of(L)
               /\ NoDuplicates(accepted)
               /\ NoDuplicates(AllCoordinates(L.result))

\* a sweep that returned a hole reaching two layers above the first surface
C17_Witness ==
    \E i \in DOMAIN frames :
        /\ Returned(i)
        /\ \E xyz \in ReturnedCells(i) :
              xyz[2] > SurfaceOf(frames[i], ColumnOf(frames[i], xyz)) + 1

\* the lowest surface the sweep first records
LowestOf(L, cols) ==
    LET heights == { SurfaceOf(L, c) : c \in cols }
    IN CHOOSE h \in heights : \A g \in heights : h <= g

\* window area times (ceiling - lowest surface + 1)
PopBound(L) ==
    map_size_of(L) * map_size_of(L) * (max_height_of(L) - LowestOf(L, ColumnsOf(L)) + 1)

PopsBounded == \A i \in DOMAIN frames : frames[i].pops <= PopBound(frames[i])

SweepOver == \A i \in DOMAIN frames : Returned(i) /\ Len(frames[i].blocks_queue) = 0

\* C16: the sweep terminates: the queue eventually becomes empty and the sweep
\* returns, and the number of pops never exceeds the window area times
\* (ceiling - lowest surface + 1).
C16_SweepTerminates == []PopsBounded /\ <>SweepOver

\* a sweep that returned after popping re-pushed candidates as well
C16_Witness ==
    \E i \in DOMAIN frames :
        /\ Returned(i)
        /\ frames[i].pops > map_size_of(frames[i]) * map_size_of(frames[i])

\* what an invocation on the one-column pit returns when it runs alone: one hole,
\* the air cell over the pit, filled with the block of the floor
AloneResult(i) ==
    frames[i].result = << << << <<HoleOrigin[1], BaseHeight, HoleOrigin[2]>> >>, MaterialOf(0) >> >>

\* C11: the hole search is reentrant: when the steps of two invocations on one
\* snapshot interleave in any order, each returns the hole list it returns alone, so
\* two invocations at the same location return equal lists, and no invocation fails.
C11_InterleavedSweepsAgree ==
    \A i \in DOMAIN frames :
        /\ frames[i].pc # "AssertionError"
        /\ Returned(i) =>
              /\ AloneResult(i)
              /\ \A j \in DOMAIN frames : Returned(j) => frames[j].result = frames[i].result

====
